---- MODULE Spec2Model ----
(***************************************************************************)
(* Model of the bridge-write subcommand of cobalt (src/src/main.rs): the   *)
(* Modbus RTU -> PLC bridge loop, the register decoder u16_to_f32 and the  *)
(* flow correction velocity_to_rate.                                       *)
(*                                                                         *)
(* Representation of numbers.                                              *)
(*   u16  : 0 .. 65535.                                                    *)
(*   u32  : <<hi, lo>>, its high and low 16-bit halves (TLC integers are   *)
(*          32-bit signed, so a u32 does not fit in one of them).          *)
(*   f32  : its IEEE-754 binary32 bit pattern, as a u32.                   *)
(*   The arithmetic of velocity_to_rate is carried out on magnitude        *)
(*   intervals: an f32 is abstracted to                                    *)
(*       [k |-> "nan"]                    a NaN                            *)
(*       [k |-> "inf",  s]                +-infinity, s = 1 when negative  *)
(*       [k |-> "zero", s]                +-0                              *)
(*       [k |-> "fin",  s, lo, hi]        finite, 2^lo <= |x| < 2^(hi+1)   *)
(*       [k |-> "top"]                    any f32 whatsoever               *)
(*   and every operation returns an abstract value that contains every     *)
(*   result IEEE-754 round-to-nearest can produce from its operands; where *)
(*   overflow, underflow or cancellation is possible it returns "top".     *)
(***************************************************************************)
EXTENDS Integers, Sequences, FiniteSets, TLC

VARIABLES
    cfg,        \* command line of the run and build target: constant during a run
    setup,      \* start-up steps of main() completed so far, in order
    pc,         \* control point of main()
    cycle,      \* sequence number of the loop iteration in progress
    inflight,   \* protocol requests issued and not yet answered
    loc,        \* the loop body's local variables
    plc,        \* controller memory: tag path -> last value written to it
    trace,      \* events of the iteration in progress, in order
    prevtrace,  \* events of the previous iteration
    writes,     \* tag writes issued in the iteration in progress, in order
    reports,    \* status lines printed in the iteration in progress
    nwrites,    \* tag writes issued since the start of the run
    wstart,     \* nwrites when the iteration in progress started
    prev,       \* inputs and outputs of the previous completed iteration
    call        \* SpecFn only: a call of a pure function and its result

vars == <<cfg, setup, pc, cycle, inflight, loc, plc, trace, prevtrace, writes,
          reports, nwrites, wstart, prev, call>>

(***************************************************************************)
(* Bounds of the model.                                                    *)
(***************************************************************************)
MaxCycles == 2
NumRegs == 2
NumTagVals == 2
NumWords == 10

Max(a, b) == IF a >= b THEN a ELSE b

RECURSIVE Pow2(_)
Pow2(n) == IF n = 0 THEN 1 ELSE 2 * Pow2(n - 1)

(***************************************************************************)
(* Bitwise or of two n-bit naturals.                                       *)
(***************************************************************************)
RECURSIVE BitOr(_, _, _)
BitOr(a, b, n) ==
    IF n = 0 THEN 0
    ELSE (IF a % 2 = 1 \/ b % 2 = 1 THEN 1 ELSE 0)
         + 2 * BitOr(a \div 2, b \div 2, n - 1)

\* `x as u32` for a u16 x
AsU32(x) == <<0, x>>

\* u32 << n, 0 <= n <= 16 (bits shifted out of the top are dropped)
Shl(x, n) ==
    << (x[1] % Pow2(16 - n)) * Pow2(n) + (x[2] \div Pow2(16 - n)),
       (x[2] % Pow2(16 - n)) * Pow2(n) >>

\* u32 | u32
Or32(x, y) == << BitOr(x[1], y[1], 16), BitOr(x[2], y[2], 16) >>

Endians == {"little", "big"}

\* u32::to_ne_bytes: the four bytes in the host's memory order
to_ne_bytes(x, endian) ==
    IF endian = "little"
    THEN << x[2] % 256, x[2] \div 256, x[1] % 256, x[1] \div 256 >>
    ELSE << x[1] \div 256, x[1] % 256, x[2] \div 256, x[2] % 256 >>

\* f32::from_ne_bytes: the bit pattern read back from the host's memory order
from_ne_bytes(b, endian) ==
    IF endian = "little"
    THEN << b[4] * 256 + b[3], b[2] * 256 + b[1] >>
    ELSE << b[1] * 256 + b[2], b[3] * 256 + b[4] >>

u16_to_f32_shift8(first, second, endian) ==
    LET data_32bit_rep == Or32(Shl(AsU32(first), 8), AsU32(second))
        data_32_array == to_ne_bytes(data_32bit_rep, endian)
    IN  from_ne_bytes(data_32_array, endian)

\* fn u16_to_f32(first: u16, second: u16) -> f32, on a host of the given byte order
u16_to_f32(first, second, endian) ==
    LET data_32bit_rep == Or32(Shl(AsU32(first), 16), AsU32(second))
        data_32_array == to_ne_bytes(data_32bit_rep, endian)
    IN  from_ne_bytes(data_32_array, endian)

\* f32::to_bits, split into the high and the low 16-bit word
HighWord(f) == f[1]
LowWord(f) == f[2]

(***************************************************************************)
(* IEEE-754 binary32 fields of a bit pattern and its abstraction.          *)
(***************************************************************************)
SignOf(f) == f[1] \div 32768
ExpOf(f) == (f[1] % 32768) \div 128
MantZero(f) == (f[1] % 128 = 0) /\ (f[2] = 0)

NaN == [k |-> "nan"]
Top == [k |-> "top"]
Inf(s) == [k |-> "inf", s |-> s]
Zero(s) == [k |-> "zero", s |-> s]
Fin(s, lo, hi) == [k |-> "fin", s |-> s, lo |-> lo, hi |-> hi]
\* a positive literal of the source with 2^e <= literal < 2^(e+1)
Lit(e) == Fin(0, e, e)

IsNaNBits(f) == ExpOf(f) = 255 /\ ~MantZero(f)
IsInfBits(f) == ExpOf(f) = 255 /\ MantZero(f)
IsZeroBits(f) == ExpOf(f) = 0 /\ MantZero(f)
IsFiniteBits(f) == ExpOf(f) # 255

Abs(f) ==
    IF IsNaNBits(f) THEN NaN
    ELSE IF IsInfBits(f) THEN Inf(SignOf(f))
    ELSE IF IsZeroBits(f) THEN Zero(SignOf(f))
    ELSE IF ExpOf(f) = 0 THEN Fin(SignOf(f), -149, -127)
    ELSE Fin(SignOf(f), ExpOf(f) - 127, ExpOf(f) - 127)

Xor(s, t) == (s + t) % 2

\* a finite result with exponent range lo..hi, or Top if it may leave the
\* normal range of binary32
Ranged(s, lo, hi) == IF lo < -126 \/ hi > 127 THEN Top ELSE Fin(s, lo, hi)

FMul(x, y) ==
    IF x.k = "nan" \/ y.k = "nan" THEN NaN
    ELSE IF x.k = "top" \/ y.k = "top" THEN Top
    ELSE IF x.k = "inf" \/ y.k = "inf"
         THEN (IF x.k = "zero" \/ y.k = "zero" THEN NaN ELSE Inf(Xor(x.s, y.s)))
    ELSE IF x.k = "zero" \/ y.k = "zero" THEN Zero(Xor(x.s, y.s))
    ELSE Ranged(Xor(x.s, y.s), x.lo + y.lo, x.hi + y.hi + 2)

FDiv(x, y) ==
    IF x.k = "nan" \/ y.k = "nan" THEN NaN
    ELSE IF x.k = "top" \/ y.k = "top" THEN Top
    ELSE IF x.k = "inf"
         THEN (IF y.k = "inf" THEN NaN ELSE Inf(Xor(x.s, y.s)))
    ELSE IF y.k = "inf" THEN Zero(Xor(x.s, y.s))
    ELSE IF y.k = "zero"
         THEN (IF x.k = "zero" THEN NaN ELSE Inf(Xor(x.s, y.s)))
    ELSE IF x.k = "zero" THEN Zero(Xor(x.s, y.s))
    ELSE Ranged(Xor(x.s, y.s), x.lo - y.hi - 1, x.hi - y.lo + 1)

FAdd(x, y) ==
    IF x.k = "nan" \/ y.k = "nan" THEN NaN
    ELSE IF x.k = "top" \/ y.k = "top" THEN Top
    ELSE IF x.k = "inf"
         THEN (IF y.k = "inf" /\ y.s # x.s THEN NaN ELSE x)
    ELSE IF y.k = "inf" THEN y
    ELSE IF x.k = "zero"
         THEN (IF y.k = "zero" THEN Zero(x.s * y.s) ELSE y)
    ELSE IF y.k = "zero" THEN x
    ELSE IF x.s = y.s THEN Ranged(x.s, Max(x.lo, y.lo), Max(x.hi, y.hi) + 2)
    ELSE IF x.lo > y.hi + 1 THEN Ranged(x.s, x.lo - 1, x.hi)
    ELSE IF y.lo > x.hi + 1 THEN Ranged(y.s, y.lo - 1, y.hi)
    ELSE Top

(***************************************************************************)
(* Literals of velocity_to_rate, each abstracted to its binade.            *)
(***************************************************************************)
PI == Lit(1)              \* std::f32::consts::PI
K12_0 == Lit(3)           \* 12.0
K4_0 == Lit(2)            \* 4.0
K3_28083 == Lit(1)        \* 3.28083
K3600_0 == Lit(11)        \* 3600.0
K0_068947573 == Lit(-4)   \* 0.068947573
K14_696 == Lit(3)         \* 14.696
K14_73 == Lit(3)          \* 14.73
K6894_7573 == Lit(12)     \* 6894.7573
K6_89476 == Lit(2)        \* 6.89476
K288_7056 == Lit(8)       \* 288.7056
K273_15 == Lit(8)         \* 273.15
K0_0283168466 == Lit(-6)  \* 0.0283168466
K24_0 == Lit(4)           \* 24.0
K100_0 == Lit(6)          \* 100.0
K60F_in_C == Lit(3)       \* (60.0 - 32.0) * 5.0 / 9.0 = 15.55...

(***************************************************************************)
(* aga8::detail::Detail, the external equation-of-state solver, at its     *)
(* interface: set_composition (a constant composition), p and t are set,   *)
(* density() and properties() run, z is read.  Inside the solver's range   *)
(* (a pressure that is zero or positive and below 2^19 kPa, a temperature  *)
(* between 2^6 and 2^11 K, and a density left by the previous solve of the *)
(* same object that is itself valid) z is a positive finite factor between *)
(* 2^-3 and 2^2; outside it nothing is known of z.                         *)
(***************************************************************************)
DetailInRange(p, t) ==
    /\ \/ p.k = "zero"
       \/ p.k = "fin" /\ p.s = 0 /\ p.hi <= 18
    /\ t.k = "fin" /\ t.s = 0 /\ t.lo >= 6 /\ t.hi <= 10

DetailZ(p, t, clean) ==
    IF clean /\ DetailInRange(p, t) THEN Fin(0, -3, 1) ELSE Top

velocity_to_rate_add(velocity, diameter, pressure, temperature) ==
    LET V == Abs(velocity)
        D == Abs(diameter)
        P == Abs(pressure)
        T == Abs(temperature)
        p_f == FMul(P, K100_0)
        t_f == FAdd(T, K273_15)
        z_f == DetailZ(p_f, t_f, TRUE)
        p_b == FMul(K14_73, K6_89476)
        t_b == FAdd(K60F_in_C, K273_15)
        z_b == DetailZ(p_b, t_b, DetailInRange(p_f, t_f))
        act_flow ==
            FMul(FMul(FDiv(FMul(FMul(PI, FDiv(D, K12_0)), FDiv(D, K12_0)), K4_0),
                      FAdd(V, K3_28083)),
                 K3600_0)
        base_flow ==
            FMul(FMul(FMul(FMul(FDiv(FMul(act_flow,
                                          FMul(FAdd(FDiv(P, K0_068947573), K14_696),
                                               K6894_7573)),
                                     FMul(K14_73, K6894_7573)),
                                FDiv(K288_7056, FAdd(T, K273_15))),
                           FDiv(z_b, z_f)),
                      K0_0283168466),
                 K24_0)
    IN  base_flow

velocity_to_rate_static(velocity, diameter, pressure, temperature) ==
    LET V == Abs(velocity)
        D == Abs(diameter)
        P == Abs(pressure)
        T == Abs(temperature)
        p_f == FMul(P, K100_0)
        t_f == FAdd(T, K273_15)
        z_f == DetailZ(p_f, t_f, cycle <= 1)
        p_b == FMul(K14_73, K6_89476)
        t_b == FAdd(K60F_in_C, K273_15)
        z_b == DetailZ(p_b, t_b, DetailInRange(p_f, t_f))
        act_flow ==
            FMul(FMul(FDiv(FMul(FMul(PI, FDiv(D, K12_0)), FDiv(D, K12_0)), K4_0),
                      FMul(V, K3_28083)),
                 K3600_0)
        base_flow ==
            FMul(FMul(FMul(FMul(FDiv(FMul(act_flow,
                                          FMul(FAdd(FDiv(P, K0_068947573), K14_696),
                                               K6894_7573)),
                                     FMul(K14_73, K6894_7573)),
                                FDiv(K288_7056, FAdd(T, K273_15))),
                           FDiv(z_b, z_f)),
                      K0_0283168466),
                 K24_0)
    IN  base_flow

\* fn velocity_to_rate(velocity: f32, diameter: f32, pressure: f32,
\*                     temperature: f32) -> f32
velocity_to_rate(velocity, diameter, pressure, temperature) ==
    LET V == Abs(velocity)
        D == Abs(diameter)
        P == Abs(pressure)
        T == Abs(temperature)
        p_f == FMul(P, K100_0)
        t_f == FAdd(T, K273_15)
        z_f == DetailZ(p_f, t_f, TRUE)
        p_b == FMul(K14_73, K6_89476)
        t_b == FAdd(K60F_in_C, K273_15)
        z_b == DetailZ(p_b, t_b, DetailInRange(p_f, t_f))
        act_flow ==
            FMul(FMul(FDiv(FMul(FMul(PI, FDiv(D, K12_0)), FDiv(D, K12_0)), K4_0),
                      FMul(V, K3_28083)),
                 K3600_0)
        base_flow ==
            FMul(FMul(FMul(FMul(FDiv(FMul(act_flow,
                                          FMul(FAdd(FDiv(P, K0_068947573), K14_696),
                                               K6894_7573)),
                                     FMul(K14_73, K6894_7573)),
                                FDiv(K288_7056, FAdd(T, K273_15))),
                           FDiv(z_b, z_f)),
                      K0_0283168466),
                 K24_0)
    IN  base_flow

(***************************************************************************)
(* Inputs of the model.                                                    *)
(***************************************************************************)
\* register pairs the slave may answer with: 10.0, a NaN, 0.0, +Inf, -1.0, 2.5
RegSamples ==
    << <<16672, 0>>, <<32704, 1>>, <<0, 0>>, <<32640, 0>>, <<49024, 0>>,
       <<16416, 0>> >>
\* answers with fewer registers than the two asked for
ShortResponses == { << >>, <<16672>> }
\* answers to the read of the velocity registers and of the rate registers
VelocityResponses == { RegSamples[i] : i \in 1..NumRegs } \cup ShortResponses
RateResponses == { RegSamples[1], RegSamples[2] } \cup ShortResponses

\* values of the REAL tags read from the controller: 5.0, 20.0, NaN, -273.15,
\* 0.0, -1.0
TagSamples ==
    << <<16544, 0>>, <<16800, 0>>, <<32704, 0>>, <<50056, 37683>>, <<0, 0>>,
       <<49024, 0>> >>
PressureValues == { TagSamples[i] : i \in 1..NumTagVals }
TemperatureValues == { TagSamples[1], TagSamples[2] }

\* tag paths the rate tags of the command line may parse to: rate_tag parses
\* to Rate, and rate_tag_base to the same path or to another one
Paths == {"Rate", "RateBase"}
\* the diameter of the command line: 6.0 in
Diameters == { <<16576, 0>> }

None == [k |-> "none"]
\* a TagValue { tag_type: TagType::Real, value } holding the f32 with bits f
Raw(f) == [k |-> "bits", b |-> f]

NoLocals ==
    [rsp_v |-> << >>, rsp_r |-> << >>, velocity |-> << >>, rate |-> << >>,
     pressure |-> << >>, temperature |-> << >>, rate_base |-> None]
NoPrev == [set |-> FALSE]
NoCall == [fn |-> "none"]

\* positions of the loop body
LoopPcs ==
    {"rd_vel", "aw_vel", "rd_rate", "aw_rate", "rd_p", "aw_p", "rd_t", "aw_t",
     "correct", "report", "wr_rate", "aw_wr_rate", "wr_base", "aw_wr_base",
     "sleep"}

\* the process has ended: main returned Err ("exit_err"), a thread panicked
\* ("panicked"), or main returned Ok(()) after client.close() ("exit_ok")
Terminated == pc \in {"exit_err", "panicked", "exit_ok"}

\* the exit statuses the process can end with: 1 when main returns Err, 101
\* when the panic unwinds or 134 when the build aborts on panic, 0 for Ok(())
ExitStatuses ==
    CASE pc = "exit_err" -> {1}
      [] pc = "panicked" -> {101, 134}
      [] pc = "exit_ok" -> {0}
      [] OTHER -> {}

Faulted == pc \in {"exit_err", "panicked"}

Init ==
    /\ cfg \in [endian : Endians, rate_tag : {"Rate"}, rate_tag_base : Paths,
                diameter : Diameters]
    /\ setup = << >>
    /\ pc = "connect"
    /\ cycle = 0
    /\ inflight = {}
    /\ loc = NoLocals
    /\ plc = [t \in Paths |-> None]
    /\ trace = << >>
    /\ prevtrace = << >>
    /\ writes = << >>
    /\ reports = << >>
    /\ nwrites = 0
    /\ wstart = 0
    /\ prev = NoPrev
    /\ call = NoCall

(***************************************************************************)
(* Start-up: lines 91-93 and 223-234.                                      *)
(***************************************************************************)
\* the start-up steps, in the order main() takes them
TagParses == <<"tag_pressure", "tag_temperature", "tag_rate", "tag_rate_base">>
SerialSteps == <<"serial_open", "serial_connect">>
SetupDone == <<"client">> \o TagParses \o SerialSteps

\* AbEipClient::new_host_lookup(address).await?
Connect ==
    /\ pc = "connect"
    /\ \E ok \in BOOLEAN :
         /\ pc' = IF ok THEN "parse" ELSE "exit_err"
         /\ setup' = IF ok THEN Append(setup, "client") ELSE setup
    /\ UNCHANGED <<cfg, cycle, inflight, loc, plc, trace, prevtrace, writes,
                   reports, nwrites, wstart, prev, call>>

ParseTags_lenient ==
    /\ pc = "parse"
    /\ \E k \in 0..Len(TagParses) :
         /\ setup' = setup \o SubSeq(TagParses, 1, k)
         /\ pc' = "serial"
    /\ UNCHANGED <<cfg, cycle, inflight, loc, plc, trace, prevtrace, writes,
                   reports, nwrites, wstart, prev, call>>

\* the four EPath::parse_tag(..)? of the BridgeWrite arm: the first k names
\* parse, and the next one, if there is one, does not
ParseTags ==
    /\ pc = "parse"
    /\ \E k \in 0..Len(TagParses) :
         /\ setup' = setup \o SubSeq(TagParses, 1, k)
         /\ pc' = IF k = Len(TagParses) THEN "serial" ELSE "exit_err"
    /\ UNCHANGED <<cfg, cycle, inflight, loc, plc, trace, prevtrace, writes,
                   reports, nwrites, wstart, prev, call>>

\* SerialStream::open(..).unwrap(); rtu::connect_slave(..).await.unwrap():
\* the first k of the two succeed; then the loop is entered
OpenSerial ==
    /\ pc = "serial"
    /\ \E k \in 0..Len(SerialSteps) :
         /\ setup' = setup \o SubSeq(SerialSteps, 1, k)
         /\ pc' = IF k = Len(SerialSteps) THEN "rd_vel" ELSE "panicked"
         /\ cycle' = IF k = Len(SerialSteps) THEN 1 ELSE cycle
    /\ UNCHANGED <<cfg, inflight, loc, plc, trace, prevtrace, writes,
                   reports, nwrites, wstart, prev, call>>

(***************************************************************************)
(* The loop body, lines 236-272.  Every .await is two steps: the request   *)
(* is issued, then its answer arrives (Ok or Err).                         *)
(***************************************************************************)
\* ctx.read_holding_registers(*rtu_register_velocity, 2) is sent
ReadVelocityIssue ==
    /\ pc = "rd_vel"
    /\ inflight' = inflight \cup {"rd_vel"}
    /\ trace' = Append(trace, "I_rd_vel")
    /\ pc' = "aw_vel"
    /\ UNCHANGED <<cfg, setup, cycle, loc, plc, prevtrace, writes, reports, nwrites,
                   wstart, prev, call>>

ReadVelocityOk_lenient ==
    /\ pc = "aw_vel"
    /\ "rd_vel" \in inflight
    /\ \E rsp \in VelocityResponses :
         LET padded == IF Len(rsp) = 0 THEN <<0, 0>>
                       ELSE IF Len(rsp) = 1 THEN <<rsp[1], 0>> ELSE rsp
         IN  /\ pc' = "rd_rate"
             /\ trace' = Append(trace, "K_rd_vel")
             /\ loc' = [loc EXCEPT !.rsp_v = rsp,
                                   !.velocity = u16_to_f32(padded[1], padded[2],
                                                           cfg.endian)]
    /\ inflight' = inflight \ {"rd_vel"}
    /\ UNCHANGED <<cfg, setup, cycle, plc, prevtrace, writes, reports, nwrites,
                   wstart, prev, call>>

ReadVelocityOk_skiprate ==
    /\ pc = "aw_vel"
    /\ "rd_vel" \in inflight
    /\ \E rsp \in VelocityResponses :
         IF Len(rsp) < 2
         THEN /\ pc' = "panicked"
              /\ trace' = trace \o <<"K_rd_vel", "panic">>
              /\ loc' = [loc EXCEPT !.rsp_v = rsp]
         ELSE /\ pc' = "rd_p"
              /\ trace' = Append(trace, "K_rd_vel")
              /\ loc' = [loc EXCEPT !.rsp_v = rsp,
                                    !.velocity = u16_to_f32(rsp[1], rsp[2], cfg.endian)]
    /\ inflight' = inflight \ {"rd_vel"}
    /\ UNCHANGED <<cfg, setup, cycle, plc, prevtrace, writes, reports, nwrites,
                   wstart, prev, call>>

\* .await? is Ok(rsp); velocity = u16_to_f32(rsp[0], rsp[1])
ReadVelocityOk ==
    /\ pc = "aw_vel"
    /\ "rd_vel" \in inflight
    /\ \E rsp \in VelocityResponses :
         IF Len(rsp) < 2
         THEN /\ pc' = "panicked"
              /\ trace' = trace \o <<"K_rd_vel", "panic">>
              /\ loc' = [loc EXCEPT !.rsp_v = rsp]
         ELSE /\ pc' = "rd_rate"
              /\ trace' = Append(trace, "K_rd_vel")
              /\ loc' = [loc EXCEPT !.rsp_v = rsp,
                                    !.velocity = u16_to_f32(rsp[1], rsp[2], cfg.endian)]
    /\ inflight' = inflight \ {"rd_vel"}
    /\ UNCHANGED <<cfg, setup, cycle, plc, prevtrace, writes, reports, nwrites,
                   wstart, prev, call>>

ReadVelocityErr_continue ==
    /\ pc = "aw_vel"
    /\ "rd_vel" \in inflight
    /\ inflight' = inflight \ {"rd_vel"}
    /\ trace' = Append(trace, "X_rd_vel")
    /\ pc' = "rd_rate"
    /\ UNCHANGED <<cfg, setup, cycle, loc, plc, prevtrace, writes, reports, nwrites,
                   wstart, prev, call>>

\* .await? is Err: main returns the error
ReadVelocityErr ==
    /\ pc = "aw_vel"
    /\ "rd_vel" \in inflight
    /\ inflight' = inflight \ {"rd_vel"}
    /\ trace' = Append(trace, "X_rd_vel")
    /\ pc' = "exit_err"
    /\ UNCHANGED <<cfg, setup, cycle, loc, plc, prevtrace, writes, reports, nwrites,
                   wstart, prev, call>>

ReadRateIssue_pipelined ==
    /\ pc = "aw_vel"
    /\ "rd_rate" \notin inflight
    /\ inflight' = inflight \cup {"rd_rate"}
    /\ trace' = Append(trace, "I_rd_rate")
    /\ UNCHANGED <<cfg, setup, pc, cycle, loc, plc, prevtrace, writes, reports, nwrites,
                   wstart, prev, call>>

\* ctx.read_holding_registers(*rtu_register_rate, 2) is sent
ReadRateIssue ==
    /\ pc = "rd_rate"
    /\ inflight' = inflight \cup {"rd_rate"}
    /\ trace' = Append(trace, "I_rd_rate")
    /\ pc' = "aw_rate"
    /\ UNCHANGED <<cfg, setup, cycle, loc, plc, prevtrace, writes, reports, nwrites,
                   wstart, prev, call>>

ReadRateOk_stale ==
    /\ pc = "aw_rate"
    /\ "rd_rate" \in inflight
    /\ \E rsp \in RateResponses :
         IF Len(rsp) < 2
         THEN /\ pc' = "panicked"
              /\ trace' = trace \o <<"K_rd_rate", "panic">>
              /\ loc' = [loc EXCEPT !.rsp_r = rsp]
         ELSE /\ pc' = "rd_p"
              /\ trace' = Append(trace, "K_rd_rate")
              /\ loc' = [loc EXCEPT !.rsp_r = rsp,
                                    !.rate = IF prev.set
                                             THEN u16_to_f32(prev.in[2][1], prev.in[2][2],
                                                             cfg.endian)
                                             ELSE u16_to_f32(rsp[1], rsp[2], cfg.endian)]
    /\ inflight' = inflight \ {"rd_rate"}
    /\ UNCHANGED <<cfg, setup, cycle, plc, prevtrace, writes, reports, nwrites,
                   wstart, prev, call>>

\* .await? is Ok(rsp); rate = u16_to_f32(rsp[0], rsp[1])
ReadRateOk ==
    /\ pc = "aw_rate"
    /\ "rd_rate" \in inflight
    /\ \E rsp \in RateResponses :
         IF Len(rsp) < 2
         THEN /\ pc' = "panicked"
              /\ trace' = trace \o <<"K_rd_rate", "panic">>
              /\ loc' = [loc EXCEPT !.rsp_r = rsp]
         ELSE /\ pc' = "rd_p"
              /\ trace' = Append(trace, "K_rd_rate")
              /\ loc' = [loc EXCEPT !.rsp_r = rsp,
                                    !.rate = u16_to_f32(rsp[1], rsp[2], cfg.endian)]
    /\ inflight' = inflight \ {"rd_rate"}
    /\ UNCHANGED <<cfg, setup, cycle, plc, prevtrace, writes, reports, nwrites,
                   wstart, prev, call>>

ReadRateErr ==
    /\ pc = "aw_rate"
    /\ "rd_rate" \in inflight
    /\ inflight' = inflight \ {"rd_rate"}
    /\ trace' = Append(trace, "X_rd_rate")
    /\ pc' = "exit_err"
    /\ UNCHANGED <<cfg, setup, cycle, loc, plc, prevtrace, writes, reports, nwrites,
                   wstart, prev, call>>

\* client.read_tag(pressure_tag.clone()) is sent
ReadPressureIssue ==
    /\ pc = "rd_p"
    /\ inflight' = inflight \cup {"rd_p"}
    /\ trace' = Append(trace, "I_rd_p")
    /\ pc' = "aw_p"
    /\ UNCHANGED <<cfg, setup, cycle, loc, plc, prevtrace, writes, reports, nwrites,
                   wstart, prev, call>>

\* .await? is Ok(pressure)
ReadPressureOk ==
    /\ pc = "aw_p"
    /\ "rd_p" \in inflight
    /\ \E v \in PressureValues : loc' = [loc EXCEPT !.pressure = v]
    /\ inflight' = inflight \ {"rd_p"}
    /\ trace' = Append(trace, "K_rd_p")
    /\ pc' = "rd_t"
    /\ UNCHANGED <<cfg, setup, cycle, plc, prevtrace, writes, reports, nwrites,
                   wstart, prev, call>>

ReadPressureErr_swallowed ==
    /\ pc = "aw_p"
    /\ "rd_p" \in inflight
    /\ inflight' = inflight \ {"rd_p"}
    /\ trace' = Append(trace, "X_rd_p")
    /\ loc' = [loc EXCEPT !.pressure = <<0, 0>>]
    /\ pc' = "rd_t"
    /\ UNCHANGED <<cfg, setup, cycle, plc, prevtrace, writes, reports, nwrites,
                   wstart, prev, call>>

\* .await? is Err: main returns the error
ReadPressureErr ==
    /\ pc = "aw_p"
    /\ "rd_p" \in inflight
    /\ inflight' = inflight \ {"rd_p"}
    /\ trace' = Append(trace, "X_rd_p")
    /\ pc' = "exit_err"
    /\ UNCHANGED <<cfg, setup, cycle, loc, plc, prevtrace, writes, reports, nwrites,
                   wstart, prev, call>>

\* client.read_tag(temperature_tag.clone()) is sent
ReadTemperatureIssue ==
    /\ pc = "rd_t"
    /\ inflight' = inflight \cup {"rd_t"}
    /\ trace' = Append(trace, "I_rd_t")
    /\ pc' = "aw_t"
    /\ UNCHANGED <<cfg, setup, cycle, loc, plc, prevtrace, writes, reports, nwrites,
                   wstart, prev, call>>

\* .await? is Ok(temperature)
ReadTemperatureOk ==
    /\ pc = "aw_t"
    /\ "rd_t" \in inflight
    /\ \E v \in TemperatureValues : loc' = [loc EXCEPT !.temperature = v]
    /\ inflight' = inflight \ {"rd_t"}
    /\ trace' = Append(trace, "K_rd_t")
    /\ pc' = "correct"
    /\ UNCHANGED <<cfg, setup, cycle, plc, prevtrace, writes, reports, nwrites,
                   wstart, prev, call>>

ReadTemperatureErr_break ==
    /\ pc = "aw_t"
    /\ "rd_t" \in inflight
    /\ inflight' = inflight \ {"rd_t"}
    /\ trace' = Append(trace, "X_rd_t")
    /\ pc' = "exit_ok"
    /\ UNCHANGED <<cfg, setup, cycle, loc, plc, prevtrace, writes, reports, nwrites,
                   wstart, prev, call>>

ReadTemperatureErr ==
    /\ pc = "aw_t"
    /\ "rd_t" \in inflight
    /\ inflight' = inflight \ {"rd_t"}
    /\ trace' = Append(trace, "X_rd_t")
    /\ pc' = "exit_err"
    /\ UNCHANGED <<cfg, setup, cycle, loc, plc, prevtrace, writes, reports, nwrites,
                   wstart, prev, call>>

Correct_checked ==
    /\ pc = "correct"
    /\ loc' = [loc EXCEPT !.rate_base =
                   velocity_to_rate(loc.velocity, cfg.diameter, loc.pressure,
                                    loc.temperature)]
    /\ trace' = Append(trace, "calc")
    /\ pc' = IF loc'.rate_base.k \in {"nan", "inf"} THEN "panicked" ELSE "report"
    /\ UNCHANGED <<cfg, setup, cycle, inflight, plc, prevtrace, writes, reports,
                   nwrites, wstart, prev, call>>

\* rate_base = velocity_to_rate(velocity, *diameter, pressure.value, temperature.value)
Correct ==
    /\ pc = "correct"
    /\ loc' = [loc EXCEPT !.rate_base =
                   velocity_to_rate(loc.velocity, cfg.diameter, loc.pressure,
                                    loc.temperature)]
    /\ trace' = Append(trace, "calc")
    /\ pc' = "report"
    /\ UNCHANGED <<cfg, setup, cycle, inflight, plc, prevtrace, writes, reports,
                   nwrites, wstart, prev, call>>

Report_silent ==
    /\ pc = "report"
    /\ pc' = "wr_rate"
    /\ UNCHANGED <<cfg, setup, cycle, inflight, loc, plc, trace, prevtrace, writes,
                   reports, nwrites, wstart, prev, call>>

\* io::stdout().flush(), then
\* print!("\r[{}] ===> Velocity: {} m/s, P: {} barg, T: {} degC, Q: {} Sm3/d", ..):
\* the status line of the iteration is written to standard output (the flush
\* before it pushes out the line of the iteration before; the timestamp is
\* left out of the line)
Report ==
    /\ pc = "report"
    /\ reports' = Append(reports, <<Raw(loc.velocity), Raw(loc.pressure),
                                    Raw(loc.temperature), loc.rate_base>>)
    /\ trace' = Append(trace, "report")
    /\ pc' = "wr_rate"
    /\ UNCHANGED <<cfg, setup, cycle, inflight, loc, plc, prevtrace, writes, nwrites,
                   wstart, prev, call>>

\* client.write_tag(rate_tag.clone(), &rate_to_plc) is sent
WriteRateIssue ==
    /\ pc = "wr_rate"
    /\ inflight' = inflight \cup {"wr_rate"}
    /\ writes' = Append(writes, [tag |-> cfg.rate_tag, value |-> Raw(loc.rate)])
    /\ nwrites' = nwrites + 1
    /\ trace' = Append(trace, "I_wr_rate")
    /\ pc' = "aw_wr_rate"
    /\ UNCHANGED <<cfg, setup, cycle, loc, plc, prevtrace, reports, wstart, prev, call>>

WriteRateOk_skipbase ==
    /\ pc = "aw_wr_rate"
    /\ "wr_rate" \in inflight
    /\ inflight' = inflight \ {"wr_rate"}
    /\ plc' = [plc EXCEPT ![cfg.rate_tag] = Raw(loc.rate)]
    /\ trace' = Append(trace, "K_wr_rate")
    /\ pc' = "sleep"
    /\ UNCHANGED <<cfg, setup, cycle, loc, prevtrace, writes, reports, nwrites,
                   wstart, prev, call>>

\* .await.unwrap() is Ok: the controller holds the value
WriteRateOk ==
    /\ pc = "aw_wr_rate"
    /\ "wr_rate" \in inflight
    /\ inflight' = inflight \ {"wr_rate"}
    /\ plc' = [plc EXCEPT ![cfg.rate_tag] = Raw(loc.rate)]
    /\ trace' = Append(trace, "K_wr_rate")
    /\ pc' = "wr_base"
    /\ UNCHANGED <<cfg, setup, cycle, loc, prevtrace, writes, reports, nwrites,
                   wstart, prev, call>>

WriteRateErr_ignored ==
    /\ pc = "aw_wr_rate"
    /\ "wr_rate" \in inflight
    /\ inflight' = inflight \ {"wr_rate"}
    /\ trace' = Append(trace, "X_wr_rate")
    /\ pc' = "wr_base"
    /\ UNCHANGED <<cfg, setup, cycle, loc, plc, prevtrace, writes, reports, nwrites,
                   wstart, prev, call>>

\* .await.unwrap() is Err: the unwrap panics; the controller's tag is as it was
WriteRateErr ==
    /\ pc = "aw_wr_rate"
    /\ "wr_rate" \in inflight
    /\ inflight' = inflight \ {"wr_rate"}
    /\ trace' = Append(trace, "X_wr_rate")
    /\ pc' = "panicked"
    /\ UNCHANGED <<cfg, setup, cycle, loc, plc, prevtrace, writes, reports, nwrites,
                   wstart, prev, call>>

\* client.write_tag(rate_tag_base.clone(), &rate_to_plc_base) is sent
WriteBaseIssue ==
    /\ pc = "wr_base"
    /\ inflight' = inflight \cup {"wr_base"}
    /\ writes' = Append(writes, [tag |-> cfg.rate_tag_base, value |-> loc.rate_base])
    /\ nwrites' = nwrites + 1
    /\ trace' = Append(trace, "I_wr_base")
    /\ pc' = "aw_wr_base"
    /\ UNCHANGED <<cfg, setup, cycle, loc, plc, prevtrace, reports, wstart, prev, call>>

\* .await.unwrap() is Ok: the controller holds the value
WriteBaseOk ==
    /\ pc = "aw_wr_base"
    /\ "wr_base" \in inflight
    /\ inflight' = inflight \ {"wr_base"}
    /\ plc' = [plc EXCEPT ![cfg.rate_tag_base] = loc.rate_base]
    /\ trace' = Append(trace, "K_wr_base")
    /\ pc' = "sleep"
    /\ UNCHANGED <<cfg, setup, cycle, loc, prevtrace, writes, reports, nwrites,
                   wstart, prev, call>>

WriteBaseErr_rollback ==
    /\ pc = "aw_wr_base"
    /\ "wr_base" \in inflight
    /\ inflight' = inflight \ {"wr_base"}
    /\ trace' = Append(trace, "X_wr_base")
    /\ plc' = [plc EXCEPT ![cfg.rate_tag] =
                   IF prev.set THEN prev.out[1][1].value ELSE None]
    /\ pc' = "panicked"
    /\ UNCHANGED <<cfg, setup, cycle, loc, prevtrace, writes, reports, nwrites,
                   wstart, prev, call>>

\* .await.unwrap() is Err: the unwrap panics; the controller's tags are as they were
WriteBaseErr ==
    /\ pc = "aw_wr_base"
    /\ "wr_base" \in inflight
    /\ inflight' = inflight \ {"wr_base"}
    /\ trace' = Append(trace, "X_wr_base")
    /\ pc' = "panicked"
    /\ UNCHANGED <<cfg, setup, cycle, loc, plc, prevtrace, writes, reports, nwrites,
                   wstart, prev, call>>

\* the inputs read and the outputs produced by the iteration in progress
CycleInputs == <<loc.rsp_v, loc.rsp_r, loc.pressure, loc.temperature>>
CycleOutputs == <<writes, reports>>

Sleep_break ==
    /\ pc = "sleep"
    /\ cycle < MaxCycles
    /\ prevtrace' = Append(trace, "sleep")
    /\ pc' = "exit_ok"
    /\ UNCHANGED <<cfg, setup, cycle, inflight, loc, plc, trace, writes, reports,
                   nwrites, wstart, prev, call>>

\* std::thread::sleep(Duration::from_millis(500)), then the next iteration:
\* the locals of the body go out of scope
Sleep ==
    /\ pc = "sleep"
    /\ cycle < MaxCycles
    /\ cycle' = cycle + 1
    /\ prev' = [set |-> TRUE, in |-> CycleInputs, out |-> CycleOutputs]
    /\ prevtrace' = Append(trace, "sleep")
    /\ trace' = << >>
    /\ writes' = << >>
    /\ reports' = << >>
    /\ wstart' = nwrites
    /\ loc' = NoLocals
    /\ pc' = "rd_vel"
    /\ UNCHANGED <<cfg, setup, inflight, plc, nwrites, call>>

Next ==
    \/ Connect
    \/ ParseTags
    \/ OpenSerial
    \/ ReadVelocityIssue
    \/ ReadVelocityOk
    \/ ReadVelocityErr
    \/ ReadRateIssue
    \/ ReadRateOk
    \/ ReadRateErr
    \/ ReadPressureIssue
    \/ ReadPressureOk
    \/ ReadPressureErr
    \/ ReadTemperatureIssue
    \/ ReadTemperatureOk
    \/ ReadTemperatureErr
    \/ Correct
    \/ Report
    \/ WriteRateIssue
    \/ WriteRateOk
    \/ WriteRateErr
    \/ WriteBaseIssue
    \/ WriteBaseOk
    \/ WriteBaseErr
    \/ Sleep

Spec == Init /\ [][Next]_vars

\* the loop as scheduled: thread::sleep returns after 500 ms, and the first
\* statement of the next iteration, the velocity register request, is then
\* issued. Nothing is assumed about the answers to requests.
SpecLive == Spec /\ WF_vars(Sleep) /\ WF_vars(ReadVelocityIssue)

(***************************************************************************)
(* The pure functions on their own: a call is drawn, then evaluated.       *)
(***************************************************************************)
\* 0, 1, 0x3F80, 0x7F80, 0x7FC0, 0xFF80, 0xFFFF, 0x8000, 0x00FF, 0x0100,
\* 0xAAAA, 0x5555
WordSamples ==
    <<0, 1, 16256, 32640, 32704, 65408, 65535, 32768, 255, 256, 43690, 21845>>
Words == { WordSamples[i] : i \in 1..NumWords }

\* +0.0, -0.0, 10.0, a NaN, -1.0
FnVelocities == { <<0, 0>>, <<32768, 0>>, <<16672, 0>>, <<32704, 1>>, <<49024, 0>> }
\* 6.0, 0.0, +Inf, 1e30
FnDiameters == { <<16576, 0>>, <<0, 0>>, <<32640, 0>>, <<29001, 62154>> }
\* 5.0, 0.0, -1.0, a NaN
FnPressures == { <<16544, 0>>, <<0, 0>>, <<49024, 0>>, <<32704, 0>> }
\* 20.0, -273.15, -1.0, 1000.0
FnTemperatures == { <<16800, 0>>, <<50056, 37683>>, <<49024, 0>>, <<17530, 0>> }

DecodeCalls ==
    [fn : {"u16_to_f32"}, first : Words, second : Words, endian : Endians,
     done : {FALSE}, ret : {<< >>}]
RateCalls ==
    [fn : {"velocity_to_rate"}, velocity : FnVelocities, diameter : FnDiameters,
     pressure : FnPressures, temperature : FnTemperatures,
     done : {FALSE}, ret : {None}]

InitFn ==
    /\ call \in DecodeCalls \cup RateCalls
    /\ cfg = [endian |-> "little", rate_tag |-> "Rate", rate_tag_base |-> "RateBase",
              diameter |-> <<16576, 0>>]
    /\ setup = << >>
    /\ pc = "fn"
    /\ cycle = 0
    /\ inflight = {}
    /\ loc = NoLocals
    /\ plc = [t \in Paths |-> None]
    /\ trace = << >>
    /\ prevtrace = << >>
    /\ writes = << >>
    /\ reports = << >>
    /\ nwrites = 0
    /\ wstart = 0
    /\ prev = NoPrev

CallDecode ==
    /\ call.fn = "u16_to_f32"
    /\ ~call.done
    /\ call' = [call EXCEPT !.done = TRUE,
                            !.ret = u16_to_f32(call.first, call.second, call.endian)]
    /\ UNCHANGED <<cfg, setup, pc, cycle, inflight, loc, plc, trace, prevtrace, writes,
                   reports, nwrites, wstart, prev>>

CallRate ==
    /\ call.fn = "velocity_to_rate"
    /\ ~call.done
    /\ call' = [call EXCEPT !.done = TRUE,
                            !.ret = velocity_to_rate(call.velocity, call.diameter,
                                                     call.pressure, call.temperature)]
    /\ UNCHANGED <<cfg, setup, pc, cycle, inflight, loc, plc, trace, prevtrace, writes,
                   reports, nwrites, wstart, prev>>

NextFn ==
    \/ CallDecode
    \/ CallRate

SpecFn == InitFn /\ [][NextFn]_vars

(***************************************************************************)
(* Properties.                                                             *)
(***************************************************************************)
Has(e) == \E i \in 1..Len(trace) : trace[i] = e
Pos(e) == IF Has(e) THEN CHOOSE i \in 1..Len(trace) :
                             /\ trace[i] = e
                             /\ \A j \in 1..(i - 1) : trace[j] # e
          ELSE 0
Count(e) == Cardinality({ i \in 1..Len(trace) : trace[i] = e })
LastEvent == IF trace = << >> THEN "" ELSE trace[Len(trace)]
IsPrefix(a, b) == Len(a) <= Len(b) /\ \A i \in 1..Len(a) : a[i] = b[i]

ReadFailures == {"X_rd_vel", "X_rd_rate", "X_rd_p", "X_rd_t"}
WriteFailures == {"X_wr_rate", "X_wr_base"}
ReadFailed == \E e \in ReadFailures : Has(e)
WriteFailed == \E e \in WriteFailures : Has(e)

\* C1: a cycle whose four reads and two writes all succeed has issued exactly
\* two tag writes, the raw rate to the rate tag and then the corrected rate to
\* the base-rate tag, and has printed exactly one status line; no cycle issues
\* more than two writes or prints more than one status line.
C1_TwoWritesOneReport ==
    /\ Len(writes) <= 2
    /\ Len(reports) <= 1
    /\ Len(writes) = nwrites - wstart
    /\ Len(writes) = Count("I_wr_rate") + Count("I_wr_base")
    /\ Len(reports) = Count("report")
    /\ (pc = "sleep" \/ Has("K_wr_base")) =>
         /\ Has("K_wr_rate") /\ Has("K_wr_base")
         /\ Len(writes) = 2
         /\ writes[1] = [tag |-> cfg.rate_tag, value |-> Raw(loc.rate)]
         /\ writes[2] = [tag |-> cfg.rate_tag_base, value |-> loc.rate_base]
         /\ Len(reports) = 1

C1_Witness == cycle = 2 /\ pc = "sleep" /\ Has("K_wr_base") /\ nwrites = 4

C3_ReadFailureNoWrite ==
    ReadFailed => /\ Faulted
                  /\ writes = << >>
                  /\ nwrites = wstart
                  /\ ~Has("I_wr_rate") /\ ~Has("I_wr_base")

C3_Witness == Has("X_rd_p") /\ cycle = 2 /\ nwrites = 2 /\ pc = "exit_err"

\* C4: Faulted is absorbing.  A failed register read, tag read or tag write
\* leaves the loop Faulted, and from a Faulted state no step changes anything:
\* no request, status line, sleep or cycle follows and nothing is retried.  In
\* particular the second write of a cycle is never issued after the first one
\* failed.
C4_FaultedAbsorbing ==
    /\ []((ReadFailed \/ WriteFailed) => Faulted /\ inflight = {})
    /\ [](Has("X_wr_rate") => ~Has("I_wr_base") /\ Len(writes) = 1)
    /\ [](\A e \in ReadFailures \cup WriteFailures : Count(e) <= 1)
    /\ [][Faulted => UNCHANGED vars]_vars

C4_Witness == pc = "panicked" /\ Has("X_wr_rate") /\ cycle = 2

\* the events of one iteration, in the order of the loop body
CycleOrder ==
    <<"I_rd_vel", "K_rd_vel", "I_rd_rate", "K_rd_rate", "I_rd_p", "K_rd_p",
      "I_rd_t", "K_rd_t", "calc", "I_wr_rate", "K_wr_rate", "I_wr_base",
      "K_wr_base">>

\* C5: the operations of a cycle occur in strict sequence: the velocity
\* register read, the rate register read, the pressure tag read, the
\* temperature tag read, the correction, the raw-rate write, the
\* corrected-rate write; each is issued only after the one before it has
\* succeeded, so no write is issued before all four reads have succeeded and
\* the corrected rate has been computed.
C5_StrictSequence ==
    /\ \A j \in 2..Len(CycleOrder) :
         Has(CycleOrder[j]) =>
           /\ Has(CycleOrder[j - 1])
           /\ Pos(CycleOrder[j - 1]) < Pos(CycleOrder[j])
    /\ \A j \in 1..Len(CycleOrder) : Count(CycleOrder[j]) <= 1
    /\ Has("calc") => loc.rate_base # None
    /\ Has("I_wr_rate") =>
         /\ loc.velocity # << >> /\ loc.rate # << >>
         /\ loc.pressure # << >> /\ loc.temperature # << >>

C5_Witness == Has("I_wr_base") /\ pc = "aw_wr_base" /\ cycle = 2

AwaitOf ==
    [aw_vel |-> "rd_vel", aw_rate |-> "rd_rate", aw_p |-> "rd_p", aw_t |-> "rd_t",
     aw_wr_rate |-> "wr_rate", aw_wr_base |-> "wr_base"]

\* C6: cycles never overlap.  At most one protocol request is outstanding at
\* any moment (the one the loop is awaiting), and when the first read of a
\* cycle after the first is issued, the previous cycle has completed both of
\* its writes and then slept.
C6_NoOverlap ==
    /\ Cardinality(inflight) <= 1
    /\ inflight = (IF pc \in DOMAIN AwaitOf THEN {AwaitOf[pc]} ELSE {})
    /\ (cycle > 1 /\ Has("I_rd_vel")) =>
         /\ Len(prevtrace) >= 5
         /\ prevtrace[Len(prevtrace)] = "sleep"
         /\ prevtrace[Len(prevtrace) - 1] = "K_wr_base"
         /\ prevtrace[Len(prevtrace) - 2] = "I_wr_base"
         /\ prevtrace[Len(prevtrace) - 3] = "K_wr_rate"
         /\ prevtrace[Len(prevtrace) - 4] = "I_wr_rate"
    /\ (cycle > 1) => prev.set /\ Len(prev.out[1]) = 2

C6_Witness == cycle = 2 /\ pc = "aw_vel" /\ inflight = {"rd_vel"}

\* C7: no rollback.  When the raw-rate write of a cycle has succeeded and its
\* corrected-rate write fails, the rate tag holds the value the first write
\* wrote, the base-rate tag holds what it held before the cycle (when it is
\* another tag), and no write beyond the two has been issued.
C7_NoRollback ==
    LastEvent = "X_wr_base" =>
      /\ Has("K_wr_rate")
      /\ plc[cfg.rate_tag] = Raw(loc.rate)
      /\ cfg.rate_tag_base # cfg.rate_tag =>
           plc[cfg.rate_tag_base] =
             (IF prev.set THEN prev.out[1][2].value ELSE None)
      /\ Len(writes) = 2
      /\ nwrites = wstart + 2
      /\ Faulted

C7_Witness ==
    /\ LastEvent = "X_wr_base"
    /\ cycle = 2
    /\ prev.out[1][1].value # Raw(loc.rate)
    /\ plc[cfg.rate_tag] = Raw(loc.rate)

\* C8: for words a and b, u16_to_f32(a, b) is the bit pattern with a in its
\* high and b in its low 16 bits, on either byte order of the host: splitting
\* the decoded value's bits into high and low word returns (a, b).  This holds
\* of every pattern, the NaN and infinity patterns included.
C8_DecodeRoundTrip ==
    (call.fn = "u16_to_f32" /\ call.done) =>
      /\ call.ret \in (0..65535) \X (0..65535)
      /\ HighWord(call.ret) = call.first
      /\ LowWord(call.ret) = call.second

C8_Witness ==
    /\ call.fn = "u16_to_f32" /\ call.done
    /\ IsNaNBits(call.ret)
    /\ call.first # call.second /\ call.second # 0
    /\ call.endian = "big"

\* the inputs C9 calls valid: a diameter of 2^-10 to 2^11 inches, a gauge
\* pressure of 0 to 2^11 barg, a temperature above -128 and below 512 degC
ValidDiameter(d) ==
    LET D == Abs(d) IN D.k = "fin" /\ D.s = 0 /\ D.lo >= -10 /\ D.hi <= 10
ValidPressure(p) ==
    LET P == Abs(p) IN P.k = "zero" \/ (P.k = "fin" /\ P.s = 0 /\ P.lo >= -126 /\ P.hi <= 10)
ValidTemperature(t) ==
    LET T == Abs(t)
    IN  \/ T.k = "zero"
        \/ T.k = "fin" /\ T.s = 0 /\ T.lo >= -126 /\ T.hi <= 8
        \/ T.k = "fin" /\ T.s = 1 /\ T.lo >= -126 /\ T.hi <= 6

\* C9: velocity_to_rate of a zero velocity (+0.0 or -0.0) and a valid
\* diameter, pressure and temperature is zero, whatever compressibility
\* factors the equation of state returns for them.
C9_ZeroVelocityZeroRate ==
    ( /\ call.fn = "velocity_to_rate" /\ call.done
      /\ IsZeroBits(call.velocity)
      /\ ValidDiameter(call.diameter)
      /\ ValidPressure(call.pressure)
      /\ ValidTemperature(call.temperature) )
    => call.ret.k = "zero"

C9_Witness ==
    /\ call.fn = "velocity_to_rate" /\ call.done
    /\ IsZeroBits(call.velocity)
    /\ ValidDiameter(call.diameter)
    /\ ValidPressure(call.pressure) /\ ~IsZeroBits(call.pressure)
    /\ ValidTemperature(call.temperature) /\ SignOf(call.temperature) = 1
    /\ call.ret.k = "zero"

\* what a cycle writes and prints, as a function of what it read and of the
\* diameter and tags of the command line alone
ExpectedWrites(in, c) ==
    << [tag |-> c.rate_tag, value |-> Raw(<<in[2][1], in[2][2]>>)],
       [tag |-> c.rate_tag_base,
        value |-> velocity_to_rate(<<in[1][1], in[1][2]>>, c.diameter, in[3], in[4])] >>
ExpectedReports(in, c) ==
    << << Raw(<<in[1][1], in[1][2]>>), Raw(in[3]), Raw(in[4]),
          velocity_to_rate(<<in[1][1], in[1][2]>>, c.diameter, in[3], in[4]) >> >>

\* C10: the bridge is deterministic and keeps nothing from one cycle to the
\* next.  A cycle that has read the same register words, pressure and
\* temperature as the cycle before it issues the same writes and prints the
\* same values as that cycle did; and what any cycle writes and prints is a
\* function of the values it read and the command line only, so it is the same
\* in every run and after any history.
C10_Deterministic ==
    /\ (prev.set /\ CycleInputs = prev.in) =>
         /\ IsPrefix(writes, prev.out[1])
         /\ IsPrefix(reports, prev.out[2])
         /\ pc = "sleep" => CycleOutputs = prev.out
    /\ Has("K_rd_t") =>
         /\ IsPrefix(writes, ExpectedWrites(CycleInputs, cfg))
         /\ IsPrefix(reports, ExpectedReports(CycleInputs, cfg))
    /\ pc = "sleep" =>
         /\ writes = ExpectedWrites(CycleInputs, cfg)
         /\ reports = ExpectedReports(CycleInputs, cfg)

C10_Witness ==
    /\ cycle = 2 /\ pc = "sleep"
    /\ prev.set /\ CycleInputs = prev.in
    /\ CycleOutputs = prev.out
    /\ loc.rate_base.k = "fin"

\* a request, a status line or an iteration of the loop has happened
LoopStarted ==
    \/ cycle >= 1
    \/ trace # << >> \/ prevtrace # << >>
    \/ inflight # {}
    \/ nwrites > 0 \/ writes # << >> \/ reports # << >>

C12_DistinctTargets ==
    /\ setup = SetupDone => cfg.rate_tag # cfg.rate_tag_base
    /\ Len(writes) >= 1 => writes[1] = [tag |-> cfg.rate_tag, value |-> Raw(loc.rate)]
    /\ Len(writes) = 2 =>
         /\ writes[2] = [tag |-> cfg.rate_tag_base, value |-> loc.rate_base]
         /\ writes[1].tag # writes[2].tag

\* what the code does guarantee: each value goes to the tag configured for it
C12_ConfiguredTargets ==
    /\ Len(writes) >= 1 => writes[1] = [tag |-> cfg.rate_tag, value |-> Raw(loc.rate)]
    /\ Len(writes) = 2 => writes[2] = [tag |-> cfg.rate_tag_base, value |-> loc.rate_base]

\* both values have gone to one tag path: the corrected rate overwrote the raw one
C12_SameTarget ==
    /\ Has("K_wr_base")
    /\ writes[1].tag = writes[2].tag
    /\ plc[cfg.rate_tag] = loc.rate_base

\* C13: every execution of bridge-write that terminates ends with a non-zero
\* exit status: once the loop is entered the run is inside the loop body or has
\* ended on a propagated error or a panic; the close-then-Ok(()) exit after the
\* match is never reached.
C13_NoSuccessfulExit ==
    /\ pc # "exit_ok"
    /\ Terminated => (ExitStatuses # {} /\ 0 \notin ExitStatuses)
    /\ Terminated <=> Faulted
    /\ setup = SetupDone => pc \in LoopPcs \cup {"exit_err", "panicked"}

C13_Witness ==
    /\ Terminated
    /\ cycle = MaxCycles
    /\ LastEvent = "X_rd_t"
    /\ ExitStatuses = {1}

\* a corrected rate that is not a finite number
NonFinite(v) == v.k \in {"nan", "inf"}

C15_LoopRunsOn ==
    /\ [](Has("K_wr_base") => (pc = "sleep" /\ ~Faulted))
    /\ (pc = "sleep" /\ cycle < MaxCycles) ~>
           (pc = "aw_vel" /\ trace = <<"I_rd_vel">> /\ prevtrace # << >>)
    /\ [][pc = "sleep" => (pc' = "rd_vel" /\ cycle' = cycle + 1)]_vars
    /\ [][cycle' >= cycle]_vars
    /\ [](cycle >= 1 => pc \in LoopPcs \cup {"exit_err", "panicked"})
    /\ [](Terminated => Faulted)

\* the last iteration the bound admits has started polling after a complete one
C15_Witness ==
    /\ cycle = MaxCycles
    /\ pc = "aw_vel"
    /\ Len(prevtrace) >= 2
    /\ prevtrace[Len(prevtrace) - 1] = "K_wr_base"
    /\ prevtrace[Len(prevtrace)] = "sleep"

\* the values the iteration in progress has decoded from its own responses
DecodedVelocity == u16_to_f32(loc.rsp_v[1], loc.rsp_v[2], cfg.endian)
DecodedRate == u16_to_f32(loc.rsp_r[1], loc.rsp_r[2], cfg.endian)
CorrectedNow ==
    velocity_to_rate(DecodedVelocity, cfg.diameter, loc.pressure, loc.temperature)

\* C16: what iteration N writes and prints comes from what iteration N read.
\* An iteration starts with no value carried over; a value is present only
\* once this iteration's read of it has succeeded, and a decoded value is the
\* decoding of this iteration's two-word response; the raw-rate write carries
\* exactly the value decoded from the rate register pair this iteration read;
\* the corrected-rate write and the status line carry the correction of the
\* velocity, pressure and temperature this iteration read; and the tag holds
\* that value once the write has succeeded.
C16_FreshValues ==
    /\ pc = "rd_vel" =>
         (loc = NoLocals /\ writes = << >> /\ reports = << >> /\ trace = << >>)
    /\ (loc.velocity # << >>) <=> (Has("K_rd_vel") /\ Len(loc.rsp_v) = 2)
    /\ (loc.rate # << >>) <=> (Has("K_rd_rate") /\ Len(loc.rsp_r) = 2)
    /\ loc.velocity # << >> => loc.velocity = DecodedVelocity
    /\ loc.rate # << >> => loc.rate = DecodedRate
    /\ (loc.pressure # << >>) <=> Has("K_rd_p")
    /\ (loc.temperature # << >>) <=> Has("K_rd_t")
    /\ (loc.rate_base # None) <=> Has("calc")
    /\ Has("I_wr_rate") =>
         /\ writes[1].value = Raw(DecodedRate)
         /\ Raw(loc.rate) = Raw(DecodedRate)
    /\ Has("report") =>
         reports[1] = <<Raw(DecodedVelocity), Raw(loc.pressure),
                        Raw(loc.temperature), CorrectedNow>>
    /\ Has("I_wr_base") => writes[2].value = CorrectedNow
    /\ LastEvent = "K_wr_rate" => plc[cfg.rate_tag] = Raw(DecodedRate)
    /\ Has("K_wr_base") => plc[cfg.rate_tag_base] = CorrectedNow

\* the second iteration read a rate other than the first one's and a velocity
\* other than the first one's, and has written its own
C16_Witness ==
    /\ prev.set
    /\ Len(prev.out[1]) = 2
    /\ Has("K_wr_base")
    /\ loc.rsp_r # prev.in[2]
    /\ loc.rsp_v # prev.in[1]
    /\ writes[1].value # prev.out[1][1].value
    /\ writes[2].value # prev.out[1][2].value

\* C17: the reads of an iteration short-circuit on the first failure: after a
\* failed velocity read neither the rate read nor a tag read is issued, after
\* a failed rate read no tag read is issued, after a failed pressure read the
\* temperature read is not issued; the failed read is the last thing the
\* iteration did, nothing is left in flight, and the iteration computes and
\* prints nothing.
C17_ReadsShortCircuit ==
    /\ Has("X_rd_vel") => (~Has("I_rd_rate") /\ ~Has("I_rd_p") /\ ~Has("I_rd_t"))
    /\ Has("X_rd_rate") => (~Has("I_rd_p") /\ ~Has("I_rd_t"))
    /\ Has("X_rd_p") => ~Has("I_rd_t")
    /\ ReadFailed =>
         /\ LastEvent \in ReadFailures
         /\ Cardinality({i \in 1..Len(trace) : trace[i] \in ReadFailures}) = 1
         /\ pc = "exit_err"
         /\ inflight = {}
         /\ ~Has("calc")
         /\ ~Has("report")
         /\ reports = << >>

\* the pressure read of the second iteration failed after both register reads
C17_Witness ==
    /\ cycle = MaxCycles
    /\ trace = <<"I_rd_vel", "K_rd_vel", "I_rd_rate", "K_rd_rate", "I_rd_p", "X_rd_p">>
    /\ pc = "exit_err"
    /\ reports = << >>

\* C18: a register read that succeeds with fewer than two words faults the
\* loop at the decode: the iteration panics right after that response, the
\* value is never decoded, no later request of the iteration is issued (no
\* rate read after a short velocity response, no tag read, no write), nothing
\* is printed, and nothing happens afterwards.
C18_ShortResponseFaults ==
    /\ [](Has("K_rd_vel") /\ Len(loc.rsp_v) < 2 =>
            /\ trace = <<"I_rd_vel", "K_rd_vel", "panic">>
            /\ loc.velocity = << >>)
    /\ [](Has("K_rd_rate") /\ Len(loc.rsp_r) < 2 =>
            /\ trace = <<"I_rd_vel", "K_rd_vel", "I_rd_rate", "K_rd_rate", "panic">>
            /\ loc.rate = << >>)
    /\ [](Has("panic") =>
            /\ pc = "panicked"
            /\ Len(loc.rsp_v) < 2 \/ Len(loc.rsp_r) < 2
            /\ ~Has("I_rd_p") /\ ~Has("I_rd_t")
            /\ ~Has("I_wr_rate") /\ ~Has("I_wr_base")
            /\ ~Has("calc") /\ ~Has("report")
            /\ loc.pressure = << >> /\ loc.temperature = << >> /\ loc.rate_base = None
            /\ writes = << >> /\ reports = << >> /\ nwrites = wstart
            /\ inflight = {})
    /\ [][Has("panic") => UNCHANGED vars]_vars

\* the rate read of the last iteration returned one word
C18_Witness ==
    /\ cycle = MaxCycles
    /\ Len(loc.rsp_r) = 1
    /\ LastEvent = "panic"
    /\ pc = "panicked"
    /\ loc.velocity # << >>

====
